---- MODULE Spec2Model ----
(***************************************************************************)
(* A model of the local agent: Agent construction and Agent.chat           *)
(* (agent/core.py), the request of the Ollama backend                      *)
(* (agent/llm_backend.py), the file reader, file search and logger tools   *)
(* (agent/tools/) and the HTTP service (server/api.py).                    *)
(*                                                                         *)
(* Text is modelled structurally.  A path or a file's text is a sequence   *)
(* of one-character strings.  A model reply is a sequence of chunks: a run *)
(* of whitespace, a run of prose without braces, or the text of one        *)
(* well-formed JSON object.                                                *)
(***************************************************************************)
EXTENDS Integers, Sequences, FiniteSets, TLC

VARIABLES
    history,    \* Agent.history: sequence of [role, content]
    tools,      \* Agent.tools: registry, tool name -> tool class
    th,         \* per calling thread: position in Agent.chat and its locals
    turns,      \* number of chat calls started so far
    rdRoot,     \* FileReaderTool.repo_root of the reader under test
    rdArgs,     \* the kwargs of the FileReaderTool.run call under test
    rdOut,      \* the outcome of that call
    sr,         \* the FileSearchTool.run call under test: its kwargs and outcome
    lg,         \* the LoggerTool under test: notes.txt, the last call and outcome
    ld,         \* Agent construction under test: the configuration and its outcome
    web         \* the HTTP service: per handler thread, the request and its answer

vars == <<history, tools, th, turns, rdRoot, rdArgs, rdOut, sr, lg, ld, web>>

-----------------------------------------------------------------------------
(* Bounds of the model *)

MaxTurns == 2        \* chat calls per behaviour
MaxPathLen == 5      \* characters in a path argument
MaxCharsTop == 3     \* largest explicit max_chars
MaxCharsNeg == 1     \* max_chars ranges down to -MaxCharsNeg
MaxQueryLen == 2     \* characters in a search query
MaxResultsTop == 2   \* largest explicit max_results
MaxResultsNeg == 1   \* max_results ranges down to -MaxResultsNeg
MaxNotes == 3        \* LoggerTool.run calls per behaviour
MaxClock == 2        \* readings of the clock
MaxEntries == 2      \* entries in a configuration's tools list
MaxRequests == 2     \* POST /chat requests per behaviour

(* Program constant: the default of max_chars *)
DefaultMaxChars == 2000

(* Program constant: the default of max_results *)
DefaultMaxResults == 20

-----------------------------------------------------------------------------
(* Python values and outcomes *)

None == [t |-> "none"]
JStr(s) == [t |-> "str", v |-> s]
JChars(s) == [t |-> "chars", v |-> s]
JInt(n) == [t |-> "int", v |-> n]
JBool(b) == [t |-> "bool", v |-> b]
JDict(m) == [t |-> "dict", v |-> m]
Opaque == [t |-> "object"]          \* a value json.dumps cannot serialize
EmptyMap == [k \in {} |-> None]

Ok(v) == [ok |-> TRUE, v |-> v]
Raise(exc, m, a) == [ok |-> FALSE, exc |-> exc, msg |-> m, arg |-> a]

\* dict.get(key, default)
Get(m, key, default) == IF key \in DOMAIN m THEN m[key] ELSE default

\* Python truthiness of a value
Truthy(x) ==
    CASE x.t = "none" -> FALSE
      [] x.t = "str"  -> x.v # ""
      [] x.t = "chars" -> x.v # <<>>
      [] x.t = "int"  -> x.v # 0
      [] x.t = "bool" -> x.v
      [] x.t = "dict" -> DOMAIN x.v # {}
      [] OTHER        -> TRUE

-----------------------------------------------------------------------------
(* Character strings: str.startswith, str.split("/"), "/".join *)

StartsWith(s, p) == Len(s) >= Len(p) /\ SubSeq(s, 1, Len(p)) = p

RECURSIVE SplitSlash(_)
SplitSlash(s) ==
    IF \A i \in 1..Len(s) : s[i] # "/" THEN <<s>>
    ELSE LET i == CHOOSE j \in 1..Len(s) :
                      s[j] = "/" /\ \A k \in 1..(j - 1) : s[k] # "/"
         IN  <<SubSeq(s, 1, i - 1)>> \o SplitSlash(SubSeq(s, i + 1, Len(s)))

RECURSIVE JoinSlash(_)
JoinSlash(cs) ==
    IF cs = <<>> THEN <<>>
    ELSE IF Len(cs) = 1 THEN cs[1]
    ELSE cs[1] \o <<"/">> \o JoinSlash(Tail(cs))

\* os.path.join(a, p) on POSIX
PathJoin(a, p) ==
    IF StartsWith(p, <<"/">>) THEN p
    ELSE IF a = <<>> \/ a[Len(a)] = "/" THEN a \o p
    ELSE a \o <<"/">> \o p

\* the component loop of posixpath.normpath
RECURSIVE NormComps(_, _, _)
NormComps(comps, acc, rooted) ==
    IF comps = <<>> THEN acc
    ELSE LET c == Head(comps) IN
         IF c = <<>> \/ c = <<".">> THEN NormComps(Tail(comps), acc, rooted)
         ELSE IF \/ c # <<".", ".">>
                 \/ (~rooted /\ acc = <<>>)
                 \/ (acc # <<>> /\ acc[Len(acc)] = <<".", ".">>)
         THEN NormComps(Tail(comps), Append(acc, c), rooted)
         ELSE IF acc # <<>>
         THEN NormComps(Tail(comps), SubSeq(acc, 1, Len(acc) - 1), rooted)
         ELSE NormComps(Tail(comps), acc, rooted)

\* posixpath.normpath
NormPath(p) ==
    IF p = <<>> THEN <<".">>
    ELSE LET slashes == IF ~StartsWith(p, <<"/">>) THEN 0
                        ELSE IF StartsWith(p, <<"/", "/">>)
                                /\ ~StartsWith(p, <<"/", "/", "/">>) THEN 2
                        ELSE 1
             lead == IF slashes = 0 THEN <<>>
                     ELSE IF slashes = 1 THEN <<"/">> ELSE <<"/", "/">>
             body == JoinSlash(NormComps(SplitSlash(p), <<>>, slashes > 0))
             joined == lead \o body
         IN  IF joined = <<>> THEN <<".">> ELSE joined

\* the process's working directory
Cwd == <<"/">>

\* os.path.abspath
AbsPath(p) == IF StartsWith(p, <<"/">>) THEN NormPath(p) ELSE NormPath(PathJoin(Cwd, p))

-----------------------------------------------------------------------------
(* The file system the tools see *)

\* regular files: normalized absolute path -> decoded text
FileText ==
    (<<"/", "a", "/", "b">> :> <<"x", "y">>)
    @@ (<<"/", "a", "/", "a">> :> <<>>)
    @@ (<<"/", "a", "b">> :> <<"s", "e", "c">>)
    @@ (<<"/", "b">> :> <<"t">>)

\* directories
Dirs == {<<"/">>, <<"/", "a">>}

PathExists(p) == p \in DOMAIN FileText \/ p \in Dirs
IsFile(p) == p \in DOMAIN FileText

\* f.read(n) on a text file: a negative n reads to the end
ReadChars(text, n) ==
    IF n < 0 \/ n >= Len(text) THEN text ELSE SubSeq(text, 1, n)

-----------------------------------------------------------------------------
(* FileReaderTool.run *)

\* the containment test of run: a textual prefix test
InsideRoot(abs_path, root) == StartsWith(abs_path, root)

TruncatedMutant(content, max_chars) == Len(content) > max_chars

\* the truncated flag of the result
Truncated(content, max_chars) == Len(content) >= max_chars

FileReaderRun(root, kwargs) ==
    LET path == Get(kwargs, "path", None)
        max_chars == Get(kwargs, "max_chars", JInt(DefaultMaxChars)).v
    IN  IF ~Truthy(path)
        THEN Raise("ValueError", "'path' argument is required", None)
        ELSE LET abs_path == AbsPath(PathJoin(root, path.v)) IN
             IF ~InsideRoot(abs_path, root)
             THEN Raise("ValueError", "Access outside the repository is not allowed", None)
             ELSE IF ~PathExists(abs_path) \/ ~IsFile(abs_path)
             THEN Raise("FileNotFoundError", "File not found: %s", path)
             ELSE LET content == ReadChars(FileText[abs_path], max_chars) IN
                  Ok(JDict([content |-> JChars(content),
                            truncated |-> JBool(Truncated(content, max_chars))]))

-----------------------------------------------------------------------------
(* The reader under test: inputs drawn at Init, one run *)

PathChars == {"/", ".", "a", "b"}

RECURSIVE StringsUpTo(_)
StringsUpTo(n) ==
    IF n = 0 THEN {<<>>}
    ELSE LET shorter == StringsUpTo(n - 1) IN
         shorter \cup {Append(s, c) : s \in {x \in shorter : Len(x) = n - 1}, c \in PathChars}

PathArgs == StringsUpTo(MaxPathLen)

MaxCharsArgs == (0 - MaxCharsNeg)..MaxCharsTop

Roots == {<<"/", "a">>, <<"/", "a", "/">>}

ReaderKwargs ==
    {EmptyMap}
    \cup {[path |-> JChars(p)] : p \in PathArgs}
    \cup {[path |-> JChars(p), max_chars |-> JInt(n)] : p \in PathArgs, n \in MaxCharsArgs}

NotRun == [ok |-> FALSE, exc |-> "", msg |-> "not run", arg |-> None]

ReaderIdle ==
    /\ rdRoot = <<"/", "a">>
    /\ rdArgs = EmptyMap
    /\ rdOut = NotRun

ReaderInputs ==
    /\ rdRoot \in Roots
    /\ rdArgs \in ReaderKwargs
    /\ rdOut = NotRun

ReaderRun ==
    /\ rdOut = NotRun
    /\ rdOut' = FileReaderRun(rdRoot, rdArgs)
    /\ UNCHANGED <<history, tools, th, turns, rdRoot, rdArgs, sr, lg, ld, web>>

-----------------------------------------------------------------------------
(* Reply text, json.loads and json.dumps *)

WS == [k |-> "ws"]                       \* a run of whitespace
Prose(w) == [k |-> "prose", s |-> w]     \* a run of text without braces
ObjText(m) == [k |-> "obj", v |-> m]     \* the text of the JSON object m

\* str.strip
Strip(x) ==
    LET keep == {i \in 1..Len(x) : x[i].k # "ws"} IN
    IF keep = {} THEN <<>>
    ELSE SubSeq(x, CHOOSE i \in keep : \A j \in keep : i <= j,
                   CHOOSE i \in keep : \A j \in keep : i >= j)

\* reply.startswith("{")
StartsWithBrace(x) == x # <<>> /\ x[1].k = "obj"

\* json.loads: the whole text must be one JSON document
JsonLoads(x) ==
    IF Len(x) = 1 /\ x[1].k = "obj" THEN Ok(JDict(x[1].v))
    ELSE Raise("JSONDecodeError", "Extra data", None)

RECURSIVE Serializable(_)
Serializable(v) ==
    /\ v.t # "object"
    /\ v.t = "dict" => \A key \in DOMAIN v.v : Serializable(v.v[key])

\* json.dumps(result, ensure_ascii=False)
JsonDumps(v) ==
    IF Serializable(v) /\ v.t = "dict" THEN Ok(<<ObjText(v.v)>>)
    ELSE IF Serializable(v) THEN Ok(<<Prose("scalar")>>)
    ELSE Raise("TypeError", "Object is not JSON serializable", None)

-----------------------------------------------------------------------------
(* Tools *)

\* the repository root the registry's FileReaderTool() defaults to
RepoRoot == <<"/", "a">>

\* tool.run(**kwargs), by the class of the registered instance
ToolRun(cls, kwargs) ==
    CASE cls = "DummyTool" -> Ok(JDict([ran |-> JBool(TRUE), args |-> JDict(kwargs)]))
      [] cls = "FileReaderTool" -> FileReaderRun(RepoRoot, kwargs)
      [] cls = "OpaqueTool" -> Ok(Opaque)

EmptyRegistry == [n \in {} |-> ""]

FullRegistry ==
    [dummy |-> "DummyTool", file_reader |-> "FileReaderTool", opaque |-> "OpaqueTool"]

Registries == {EmptyRegistry, FullRegistry}

-----------------------------------------------------------------------------
(* Agent.chat *)

Threads == {"t1", "t2"}

NoCall == [kind |-> "none"]
Pending == [kind |-> "pending"]

IdleLocals(prev) ==
    [pc |-> "idle", message |-> <<>>, use_tools |-> FALSE, response |-> <<>>,
     reply |-> <<>>, call |-> NoCall, result |-> None, caught |-> None,
     h0 |-> <<>>, out |-> Pending, ran |-> <<>>, backend_failed |-> FALSE,
     prev_caught |-> prev,
     posts |-> <<>>,      \* the chat requests this call sent to the model server
     mine |-> {}]         \* bookkeeping: the places in history this call appended at

UserEntryMutant(message) == [role |-> "assistant", content |-> message]

UserEntry(message) == [role |-> "user", content |-> message]

AssistantEntry(content) == [role |-> "assistant", content |-> content]

AppendEntryMutant(h, e) == <<e>> \o h

\* self.history.append(e)
AppendEntry(h, e) == Append(h, e)

WantsToolParseMutant(use_tools, reply) == StartsWithBrace(reply)

\* the condition guarding the try block
WantsToolParse(use_tools, reply) == use_tools /\ StartsWithBrace(reply)

\* the try block up to the registry lookup: what the reply asks for
ParseToolCall(reply, registry) ==
    LET data == JsonLoads(reply) IN
    IF ~data.ok THEN [kind |-> "exc", exc |-> data]
    ELSE LET tool_info == Get(data.v.v, "tool", None) IN
         IF ~Truthy(tool_info) THEN NoCall
         ELSE IF tool_info.t # "dict"
         THEN [kind |-> "exc",
               exc |-> Raise("AttributeError", "object has no attribute 'get'", None)]
         ELSE LET tool_name == Get(tool_info.v, "name", None)
                  args == Get(tool_info.v, "args", JDict(EmptyMap))
              IN  IF tool_name.t = "dict"
                  THEN [kind |-> "exc",
                        exc |-> Raise("TypeError", "unhashable type", None)]
                  ELSE IF ~(tool_name.t = "str" /\ tool_name.v \in DOMAIN registry)
                  THEN [kind |-> "exc",
                        exc |-> Raise("ValueError", "Unknown tool: %s", tool_name)]
                  ELSE [kind |-> "call", name |-> tool_name.v, args |-> args]

ExceptMutant(l, e) ==
    [l EXCEPT !.caught = e, !.pc = "done", !.out = [kind |-> "raise", exc |-> e]]

\* the except clause: log the failure and fall through to the plain reply
Except(l, e) == [l EXCEPT !.caught = e, !.pc = "plain_user"]

\* Agent._build_system_prompt: the text describing the registered tools
BuildSystemPrompt(registry) == [t |-> "text", v |-> <<[k |-> "sys", tools |-> registry]>>]

\* the history left out of the request
BuildMessagesMutant(prompt, h, system_prompt) ==
    (IF system_prompt.t # "none" /\ system_prompt.v # <<>>
     THEN <<[role |-> "system", content |-> system_prompt.v]>>
     ELSE <<>>)
    \o <<[role |-> "user", content |-> prompt]>>

\* OllamaBackend.generate: the message list of the request
BuildMessages(prompt, h, system_prompt) ==
    (IF system_prompt.t # "none" /\ system_prompt.v # <<>>
     THEN <<[role |-> "system", content |-> system_prompt.v]>>
     ELSE <<>>)
    \o h
    \o <<[role |-> "user", content |-> prompt]>>

\* OllamaBackend._chat: the request posted to the model server
ChatRequest(messages) == [url |-> "/api/chat", messages |-> messages, stream |-> FALSE]

\* chat is entered: the message is logged, the system prompt built, and
\* backend.generate posts its request
ChatEnter(t, m, u) ==
    /\ th[t].pc = "idle"
    /\ turns < MaxTurns
    /\ turns' = turns + 1
    /\ LET system_prompt == IF u THEN BuildSystemPrompt(tools) ELSE None IN
       th' = [th EXCEPT ![t] = [IdleLocals(th[t].prev_caught) EXCEPT
                  !.pc = "generate", !.message = m, !.use_tools = u, !.h0 = history,
                  !.posts = <<ChatRequest(BuildMessages(m, history, system_prompt))>>]]
    /\ UNCHANGED <<history, tools, rdRoot, rdArgs, rdOut, sr, lg, ld>>

\* chat called directly, as the command-line client does
ChatCall(t, m, u) ==
    /\ ChatEnter(t, m, u)
    /\ UNCHANGED web

\* backend.generate returns r; the reply is trimmed and examined
BackendReply(t, r) ==
    /\ th[t].pc = "generate"
    /\ LET reply == Strip(r)
           l == [th[t] EXCEPT !.response = r, !.reply = reply]
       IN  IF WantsToolParse(th[t].use_tools, reply)
           THEN LET c == ParseToolCall(reply, tools) IN
                CASE c.kind = "exc"  -> th' = [th EXCEPT ![t] = Except(l, c.exc)]
                  [] c.kind = "none" -> th' = [th EXCEPT ![t] = [l EXCEPT !.pc = "plain_user"]]
                  [] c.kind = "call" ->
                       th' = [th EXCEPT ![t] = [l EXCEPT !.pc = "run", !.call = c]]
           ELSE th' = [th EXCEPT ![t] = [l EXCEPT !.pc = "plain_user"]]
    /\ UNCHANGED <<history, tools, turns, rdRoot, rdArgs, rdOut, sr, lg, ld, web>>

\* the user message recorded before the failure leaves chat
BackendRaiseMutant(t) ==
    /\ th[t].pc = "generate"
    /\ th' = [th EXCEPT ![t] = [@ EXCEPT !.pc = "done", !.backend_failed = TRUE,
                  !.out = [kind |-> "raise",
                           exc |-> Raise("BackendError", "generate failed", None)]]]
    /\ history' = AppendEntry(history, UserEntry(th[t].message))
    /\ UNCHANGED <<tools, turns, rdRoot, rdArgs, rdOut, sr, lg, ld, web>>

\* backend.generate raises: nothing in chat catches it
BackendRaise(t) ==
    /\ th[t].pc = "generate"
    /\ th' = [th EXCEPT ![t] = [@ EXCEPT !.pc = "done", !.backend_failed = TRUE,
                  !.out = [kind |-> "raise",
                           exc |-> Raise("BackendError", "generate failed", None)]]]
    /\ UNCHANGED <<history, tools, turns, rdRoot, rdArgs, rdOut, sr, lg, ld, web>>

\* result = tool.run(**args)
RunTool(t) ==
    /\ th[t].pc = "run"
    /\ LET c == th[t].call IN
       IF c.args.t # "dict"
       THEN th' = [th EXCEPT ![t] =
                     Except(@, Raise("TypeError", "argument after ** must be a mapping", None))]
       ELSE LET r == ToolRun(tools[c.name], c.args.v)
                l == [th[t] EXCEPT !.ran = Append(@, [name |-> c.name, args |-> c.args])]
            IN  IF r.ok
                THEN th' = [th EXCEPT ![t] = [l EXCEPT !.pc = "tool_user", !.result = r.v]]
                ELSE th' = [th EXCEPT ![t] = Except(l, r)]
    /\ UNCHANGED <<history, tools, turns, rdRoot, rdArgs, rdOut, sr, lg, ld, web>>

\* the tool turn's first append: the user message
AppendToolUser(t) ==
    /\ th[t].pc = "tool_user"
    /\ history' = AppendEntry(history, UserEntry(th[t].message))
    /\ th' = [th EXCEPT ![t] = [@ EXCEPT !.pc = "tool_reply",
                  !.mine = @ \cup {Len(history) + 1}]]
    /\ UNCHANGED <<tools, turns, rdRoot, rdArgs, rdOut, sr, lg, ld, web>>

\* the tool turn's second append: the raw reply
AppendToolReply(t) ==
    /\ th[t].pc = "tool_reply"
    /\ history' = AppendEntry(history, AssistantEntry(th[t].reply))
    /\ th' = [th EXCEPT ![t] = [@ EXCEPT !.pc = "dumps",
                  !.mine = @ \cup {Len(history) + 1}]]
    /\ UNCHANGED <<tools, turns, rdRoot, rdArgs, rdOut, sr, lg, ld, web>>

\* result_str = json.dumps(result), the third append and the return
AppendToolResult(t) ==
    /\ th[t].pc = "dumps"
    /\ LET d == JsonDumps(th[t].result) IN
       IF d.ok
       THEN /\ history' = AppendEntry(history, AssistantEntry(d.v))
            /\ th' = [th EXCEPT ![t] = [@ EXCEPT !.pc = "done",
                          !.mine = @ \cup {Len(history) + 1},
                          !.out = [kind |-> "return", v |-> d.v]]]
       ELSE /\ history' = history
            /\ th' = [th EXCEPT ![t] = Except(@, d)]
    /\ UNCHANGED <<tools, turns, rdRoot, rdArgs, rdOut, sr, lg, ld, web>>

\* the append held back while another call is between its appends
AppendPlainUserMutant(t) ==
    /\ th[t].pc = "plain_user"
    /\ \A u \in Threads \ {t} : th[u].mine = {} \/ th[u].pc = "done"
    /\ history' = AppendEntry(history, UserEntry(th[t].message))
    /\ th' = [th EXCEPT ![t] = [@ EXCEPT !.pc = "plain_reply",
                  !.mine = @ \cup {Len(history) + 1}]]
    /\ UNCHANGED <<tools, turns, rdRoot, rdArgs, rdOut, sr, lg, ld, web>>

\* the plain turn's first append: the user message
AppendPlainUser(t) ==
    /\ th[t].pc = "plain_user"
    /\ history' = AppendEntry(history, UserEntry(th[t].message))
    /\ th' = [th EXCEPT ![t] = [@ EXCEPT !.pc = "plain_reply",
                  !.mine = @ \cup {Len(history) + 1}]]
    /\ UNCHANGED <<tools, turns, rdRoot, rdArgs, rdOut, sr, lg, ld, web>>

\* the list written back from the copy taken when chat was entered
AppendPlainReplyMutant(t) ==
    /\ th[t].pc = "plain_reply"
    /\ history' = AppendEntry(AppendEntry(th[t].h0, UserEntry(th[t].message)),
                              AssistantEntry(th[t].reply))
    /\ th' = [th EXCEPT ![t] = [@ EXCEPT !.pc = "done",
                  !.mine = @ \cup {Len(history) + 1},
                  !.out = [kind |-> "return", v |-> th[t].reply]]]
    /\ UNCHANGED <<tools, turns, rdRoot, rdArgs, rdOut, sr, lg, ld, web>>

\* the plain turn's second append and the return of the reply
AppendPlainReply(t) ==
    /\ th[t].pc = "plain_reply"
    /\ history' = AppendEntry(history, AssistantEntry(th[t].reply))
    /\ th' = [th EXCEPT ![t] = [@ EXCEPT !.pc = "done",
                  !.mine = @ \cup {Len(history) + 1},
                  !.out = [kind |-> "return", v |-> th[t].reply]]]
    /\ UNCHANGED <<tools, turns, rdRoot, rdArgs, rdOut, sr, lg, ld, web>>

\* chat is left: its outcome passes to the caller
ChatLeave(t) ==
    /\ th[t].pc = "done"
    /\ th' = [th EXCEPT ![t] = IdleLocals(th[t].caught # None)]
    /\ UNCHANGED <<history, tools, turns, rdRoot, rdArgs, rdOut, sr, lg, ld>>

\* the caller takes the outcome; the thread may call again
ChatReturn(t) ==
    /\ ChatLeave(t)
    /\ UNCHANGED web

-----------------------------------------------------------------------------
(* FileSearchTool *)

\* the extensions the search looks into
TEXT_EXTENSIONS ==
    {".py", ".md", ".txt", ".yaml", ".yml", ".json", ".sh", ".ps1", ".ini",
     ".cfg", ".toml", ".js", ".ts", ".html", ".css"}

\* str.lower on one character
LowerChar(c) == CASE c = "A" -> "a" [] c = "B" -> "b" [] OTHER -> c

\* str.lower on an extension
LowerExt(e) == CASE e = ".TXT" -> ".txt" [] e = ".MD" -> ".md" [] OTHER -> e

\* the files under the repository root in the order os.walk yields them; a
\* line is its characters without the line terminator
SearchFiles ==
    << [dir |-> <<>>, stem |-> "a", ext |-> ".txt", readable |-> TRUE,
        lines |-> << <<"a", "b">>, <<" ", "A", ".", " ">>, <<"b", "b">> >>],
       [dir |-> <<>>, stem |-> "n", ext |-> ".bin", readable |-> TRUE,
        lines |-> << <<"a", "b">> >>],
       [dir |-> <<>>, stem |-> "u", ext |-> ".md", readable |-> FALSE,
        lines |-> << <<"a", "b">> >>],
       [dir |-> <<".git">>, stem |-> "c", ext |-> ".TXT", readable |-> TRUE,
        lines |-> << <<"a", "(">>, <<"b">> >>],
       [dir |-> <<"d", "node_modules">>, stem |-> "m", ext |-> ".js", readable |-> TRUE,
        lines |-> << <<"B", "a">> >>],
       [dir |-> <<"d">>, stem |-> "e", ext |-> ".py", readable |-> TRUE,
        lines |-> << <<"b">>, <<"a", "a">>, <<"(", "b">> >>] >>

\* os.path.relpath(file_path, self.repo_root), as its directories and base name
RelPath(f) == [dir |-> f.dir, base |-> <<f.stem, f.ext>>]

\* str.strip on a line
StripChars(line) ==
    LET keep == {i \in 1..Len(line) : line[i] # " "} IN
    IF keep = {} THEN <<>>
    ELSE SubSeq(line, CHOOSE i \in keep : \A j \in keep : i <= j,
                      CHOOSE i \in keep : \A j \in keep : i >= j)

\* re.compile(query, re.IGNORECASE): an unbalanced parenthesis is an error
ReCompile(query) ==
    IF \E i \in 1..Len(query) : query[i] = "("
    THEN Raise("error", "missing ), unterminated subpattern", None)
    ELSE Ok(query)

\* one pattern character against one character of the line
PatternCharMatches(p, c) == p = "." \/ LowerChar(p) = LowerChar(c)

\* pattern.search(line)
PatternSearch(pattern, line) ==
    \E i \in 1..(Len(line) - Len(pattern) + 1) :
        \A j \in 1..Len(pattern) : PatternCharMatches(pattern[j], line[i + j - 1])

\* the walk from line i of file k on, with the matches collected so far
RECURSIVE ScanFrom(_, _, _, _, _)
ScanFrom(k, i, matches, pattern, max_results) ==
    IF k > Len(SearchFiles) THEN [matches |-> matches, truncated |-> FALSE]
    ELSE LET f == SearchFiles[k] IN
         IF LowerExt(f.ext) \notin TEXT_EXTENSIONS \/ ~f.readable \/ i > Len(f.lines)
         THEN ScanFrom(k + 1, 1, matches, pattern, max_results)
         ELSE IF PatternSearch(pattern, f.lines[i])
         THEN LET found == Append(matches, [file |-> RelPath(f), line |-> i,
                                            text |-> StripChars(f.lines[i])]) IN
              IF Len(found) >= max_results
              THEN [matches |-> found, truncated |-> TRUE]
              ELSE ScanFrom(k, i + 1, found, pattern, max_results)
         ELSE ScanFrom(k, i + 1, matches, pattern, max_results)

FileSearchRun(kwargs) ==
    LET query == Get(kwargs, "query", None)
        max_results == Get(kwargs, "max_results", JInt(DefaultMaxResults)).v
    IN  IF ~Truthy(query)
        THEN Raise("ValueError", "'query' argument is required", None)
        ELSE LET pattern == ReCompile(query.v) IN
             IF ~pattern.ok THEN pattern
             ELSE Ok(ScanFrom(1, 1, <<>>, pattern.v, max_results))

-----------------------------------------------------------------------------
(* The search under test: inputs drawn at Init, one run *)

QueryChars == {"a", "B", ".", "("}

RECURSIVE QueriesUpTo(_)
QueriesUpTo(n) ==
    IF n = 0 THEN {<<>>}
    ELSE LET shorter == QueriesUpTo(n - 1) IN
         shorter \cup {Append(s, c) : s \in {x \in shorter : Len(x) = n - 1}, c \in QueryChars}

Queries == QueriesUpTo(MaxQueryLen)

MaxResultsArgs == (0 - MaxResultsNeg)..MaxResultsTop

SearchKwargs ==
    LET base == {EmptyMap}
                \cup {[query |-> JChars(q)] : q \in Queries}
                \cup {[query |-> JChars(q), max_results |-> JInt(n)] :
                          q \in Queries, n \in MaxResultsArgs}
    IN  base \cup {[key \in DOMAIN k \cup {"regex"} |->
                       IF key = "regex" THEN JBool(b) ELSE k[key]] :
                       k \in base, b \in BOOLEAN}

SearchIdle == sr = [args |-> EmptyMap, out |-> NotRun]

SearchInputs == \E k \in SearchKwargs : sr = [args |-> k, out |-> NotRun]

SearchRun ==
    /\ sr.out = NotRun
    /\ sr' = [sr EXCEPT !.out = FileSearchRun(sr.args)]
    /\ UNCHANGED <<history, tools, th, turns, rdRoot, rdArgs, rdOut, lg, ld, web>>

-----------------------------------------------------------------------------
(* LoggerTool *)

\* datetime.datetime.now().isoformat(): the text of the clock's reading
IsoFormat(now) == [iso |-> now]

\* f"[{timestamp}] {note}\n": the text of one line of the notes file
NoteLine(timestamp, note) == [stamp |-> timestamp, note |-> note]

NoFile == [exists |-> FALSE, text |-> <<>>]

\* the mode "a" replaced by "w", which truncates
OpenAppendMutant(file) == <<>>

\* open(self.notes_path, "a"): the text writes are added to
OpenAppend(file) == IF file.exists THEN file.text ELSE <<>>

\* LoggerTool.run: the file afterwards and the outcome
LoggerToolRun(file, kwargs, now) ==
    LET note == Get(kwargs, "note", None) IN
    IF ~Truthy(note)
    THEN [file |-> file, out |-> Raise("ValueError", "'note' argument is required", None)]
    ELSE LET entry == NoteLine(IsoFormat(now), note.v) IN
         [file |-> [exists |-> TRUE, text |-> Append(OpenAppend(file), entry)],
          out |-> Ok(JDict([path |-> JStr("notes.txt"), note |-> note]))]

NoteKwargs ==
    {EmptyMap, [note |-> None], [note |-> JStr("")],
     [note |-> JStr("fix")], [note |-> JStr("todo")]}

Clock == 1..MaxClock

NotesFiles ==
    {NoFile, [exists |-> TRUE, text |-> <<>>],
     [exists |-> TRUE, text |-> <<NoteLine(IsoFormat(1), "old")>>]}

LoggerIdle == lg = [file |-> NoFile, args |-> EmptyMap, out |-> NotRun, calls |-> 0]

LoggerInputs ==
    \E f \in NotesFiles : lg = [file |-> f, args |-> EmptyMap, out |-> NotRun, calls |-> 0]

LoggerRun(kwargs, now) ==
    /\ lg.calls < MaxNotes
    /\ LET done == LoggerToolRun(lg.file, kwargs, now) IN
       lg' = [file |-> done.file, args |-> kwargs, out |-> done.out,
              calls |-> lg.calls + 1]
    /\ UNCHANGED <<history, tools, th, turns, rdRoot, rdArgs, rdOut, sr, ld, web>>

-----------------------------------------------------------------------------
(* Agent._load_tools and GET /tools *)

JList(s) == [t |-> "list", v |-> s]

\* a file yaml.safe_load cannot parse
Unparsable == [t |-> "invalid"]

\* the importable modules and the class behind each of their attributes
ModuleAttrs ==
    [agent_tools_file_reader |-> [FileReaderTool |-> "FileReaderTool", ToolImpl |-> "FileReaderTool"],
     agent_tools_logger |-> [LoggerTool |-> "LoggerTool", ToolImpl |-> "LoggerTool"],
     tests_dummy_tool |-> [DummyTool |-> "DummyTool"]]

\* str.capitalize on a tool name
Capitalize(name) ==
    CASE name = "dummy" -> "Dummy"
      [] name = "logger" -> "Logger"
      [] name = "file_reader" -> "File_reader"
      [] OTHER -> name

\* entry.get("class") or name.capitalize() + "Tool"
ClassName(entry) ==
    IF Truthy(Get(entry, "class", None)) THEN entry["class"].v
    ELSE Capitalize(entry["name"].v) \o "Tool"

\* tools[name] = cls(): a name already present keeps its place
Register(acc, name, cls) ==
    [reg |-> [n \in DOMAIN acc.reg \cup {name} |-> IF n = name THEN cls ELSE acc.reg[n]],
     order |-> IF name \in DOMAIN acc.reg THEN acc.order ELSE Append(acc.order, name)]

\* the loop over the entries, from entry i on
RECURSIVE LoadFrom(_, _, _)
LoadFrom(entries, i, acc) ==
    IF i > Len(entries) THEN Ok(acc)
    ELSE LET entry == entries[i].v IN
         IF "name" \notin DOMAIN entry THEN Raise("KeyError", "name", None)
         ELSE IF "module" \notin DOMAIN entry THEN Raise("KeyError", "module", None)
         ELSE IF entry["module"].v \notin DOMAIN ModuleAttrs
         THEN Raise("ModuleNotFoundError", "No module named %s", entry["module"])
         ELSE IF ClassName(entry) \notin DOMAIN ModuleAttrs[entry["module"].v]
         THEN Raise("AttributeError", "module has no attribute %s", JStr(ClassName(entry)))
         ELSE LoadFrom(entries, i + 1,
                       Register(acc, entry["name"].v,
                                ModuleAttrs[entry["module"].v][ClassName(entry)]))

\* Agent._load_tools on the parsed configuration document
LoadTools(config) ==
    IF config.t = "invalid" THEN Raise("YAMLError", "could not parse", None)
    ELSE IF config.t # "dict"
    THEN Raise("AttributeError", "object has no attribute 'get'", None)
    ELSE LET entries == Get(config.v, "tools", JList(<<>>)) IN
         IF entries.t # "list"
         THEN Raise("TypeError", "object is not iterable", None)
         ELSE LoadFrom(entries.v, 1, [reg |-> EmptyRegistry, order |-> <<>>])

\* the name attribute of a tool class
ToolName(cls) ==
    CASE cls = "FileReaderTool" -> "file_reader"
      [] cls = "LoggerTool" -> "logger"
      [] cls = "DummyTool" -> "dummy"

\* the list in reverse order
ToolsInfoMutant(reg, order) ==
    [i \in 1..Len(order) |->
        [name |-> ToolName(reg[order[Len(order) + 1 - i]]),
         class |-> reg[order[Len(order) + 1 - i]]]]

\* list_tools: one descriptor per value of agent.tools, in the dict's order
ToolsInfo(reg, order) ==
    [i \in 1..Len(order) |-> [name |-> ToolName(reg[order[i]]), class |-> reg[order[i]]]]

ConfigEntries ==
    {[name |-> JStr("dummy"), module |-> JStr("tests_dummy_tool"), class |-> JStr("DummyTool")],
     [name |-> JStr("logger"), module |-> JStr("agent_tools_logger")],
     [name |-> JStr("file_reader"), module |-> JStr("agent_tools_file_reader")],
     [name |-> JStr("file_reader"), module |-> JStr("agent_tools_file_reader"),
      class |-> JStr("FileReaderTool")],
     [name |-> JStr("dummy"), module |-> JStr("agent_tools_logger"), class |-> JStr("ToolImpl")],
     [name |-> JStr("dummy"), module |-> JStr("nope")],
     [module |-> JStr("tests_dummy_tool")]}

RECURSIVE EntryListsUpTo(_)
EntryListsUpTo(n) ==
    IF n = 0 THEN {<<>>}
    ELSE LET shorter == EntryListsUpTo(n - 1) IN
         shorter \cup {Append(s, JDict(e)) : s \in {x \in shorter : Len(x) = n - 1},
                                             e \in ConfigEntries}

Documents ==
    {Unparsable, None, JList(<<>>), JStr("tools"),
     JDict(EmptyMap), JDict([version |-> JInt(1)]), JDict([tools |-> None])}
    \cup {JDict([tools |-> JList(s)]) : s \in EntryListsUpTo(MaxEntries)}

\* seen: the length of history when the list was answered
NotListed == [status |-> 0, tools |-> <<>>, seen |-> 0]

LoadIdle == ld = [doc |-> JDict(EmptyMap), out |-> NotRun, order |-> <<>>, listed |-> NotListed]

LoadInputs ==
    \E d \in Documents : ld = [doc |-> d, out |-> NotRun, order |-> <<>>, listed |-> NotListed]

\* Agent(backend, tools_config): __post_init__ loads the registry
Construct ==
    /\ ld.out = NotRun
    /\ LET loaded == LoadTools(ld.doc) IN
       IF loaded.ok
       THEN /\ tools' = loaded.v.reg
            /\ ld' = [ld EXCEPT !.out = Ok(None), !.order = loaded.v.order]
       ELSE /\ tools' = tools
            /\ ld' = [ld EXCEPT !.out = loaded]
    /\ UNCHANGED <<history, th, turns, rdRoot, rdArgs, rdOut, sr, lg, web>>

\* the registry emptied once it has been listed
ListToolsMutant ==
    /\ ld.out # NotRun
    /\ ld.out.ok
    /\ ld.listed = NotListed
    /\ ld' = [ld EXCEPT !.listed = [status |-> 200, tools |-> ToolsInfo(tools, ld.order),
                                    seen |-> Len(history)],
                        !.order = <<>>]
    /\ tools' = EmptyRegistry
    /\ UNCHANGED <<history, th, turns, rdRoot, rdArgs, rdOut, sr, lg, web>>

\* GET /tools
ListTools ==
    /\ ld.out # NotRun
    /\ ld.out.ok
    /\ ld.listed = NotListed
    /\ ld' = [ld EXCEPT !.listed = [status |-> 200, tools |-> ToolsInfo(tools, ld.order),
                                    seen |-> Len(history)]]
    /\ UNCHANGED <<history, tools, th, turns, rdRoot, rdArgs, rdOut, sr, lg, web>>

\* the configurations whose tools the model can run
ServiceDocuments ==
    {d \in Documents :
        /\ LoadTools(d).ok
        /\ \A n \in DOMAIN LoadTools(d).v.reg :
               LoadTools(d).v.reg[n] \in {"DummyTool", "FileReaderTool"}}

\* the service after start-up from one of these configurations
ServiceStarted ==
    \E d \in ServiceDocuments :
        /\ tools = LoadTools(d).v.reg
        /\ ld = [doc |-> d, out |-> Ok(None), order |-> LoadTools(d).v.order,
                 listed |-> NotListed]

-----------------------------------------------------------------------------
(* Inputs *)

Messages == {<<Prose("hello")>>, <<Prose("test")>>}

Envelope(name, args) == ObjText([tool |-> JDict([name |-> name, args |-> args])])

Kwargs == {EmptyMap, [x |-> JInt(1)], [path |-> JChars(<<"b">>)]}

Replies ==
    {<<Prose("hi")>>, <<WS, Prose("hi"), WS>>}
    \cup {<<Envelope(JStr(n), JDict(a))>> : n \in {"dummy", "file_reader", "nope"}, a \in Kwargs}
    \cup {<<WS, Envelope(JStr("dummy"), JDict([x |-> JInt(1)])), WS>>,
          <<Envelope(JStr("opaque"), JDict(EmptyMap))>>,
          <<Envelope(JStr("dummy"), JStr("x"))>>,
          <<ObjText([tool |-> JDict([name |-> JStr("dummy")])])>>,
          <<ObjText([tool |-> JDict([args |-> JDict(EmptyMap)])])>>,
          <<ObjText([tool |-> JStr("dummy")])>>,
          <<ObjText([answer |-> JStr("hi")])>>,
          <<Prose("ok"), Envelope(JStr("dummy"), JDict(EmptyMap))>>,
          <<Envelope(JStr("dummy"), JDict(EmptyMap)), Prose("ok")>>}

-----------------------------------------------------------------------------
(* The HTTP service: POST /chat *)

NoRequest == [message |-> <<>>, use_tools |-> FALSE]
NoResponse == [status |-> 0]

\* str(e)
Str(e) == [t |-> "message", fmt |-> e.msg, arg |-> e.arg]

\* every outcome answered as a success
HttpAnswerMutant(out) ==
    [status |-> 200, body |-> [response |-> IF out.kind = "return" THEN out.v ELSE <<>>]]

\* the handler's try/except around agent.chat: the answer to the client
HttpAnswer(out) ==
    IF out.kind = "return"
    THEN [status |-> 200, body |-> [response |-> out.v]]
    ELSE [status |-> 500, body |-> [detail |-> Str(out.exc)]]

WebIdle == web = [t \in Threads |-> [n |-> 0, req |-> NoRequest, resp |-> NoResponse]]

\* a request arrives on handler thread t, which calls agent.chat
PostChat(t, m, u) ==
    /\ turns < MaxRequests
    /\ ChatEnter(t, m, u)
    /\ web' = [web EXCEPT ![t] = [n |-> turns + 1,
                                  req |-> [message |-> m, use_tools |-> u],
                                  resp |-> NoResponse]]

\* agent.chat has returned or raised: the handler answers
PostChatAnswer(t) ==
    /\ ChatLeave(t)
    /\ web' = [web EXCEPT ![t].resp = HttpAnswer(th[t].out)]

HttpMessages == {<<Prose("hello")>>}

HttpReplies ==
    {<<Prose("hi")>>,
     <<Envelope(JStr("dummy"), JDict(EmptyMap))>>,
     <<Envelope(JStr("nope"), JDict(EmptyMap))>>}

-----------------------------------------------------------------------------
(* Specifications *)

AgentConstructed ==
    /\ history = <<>>
    /\ th = [t \in Threads |-> IdleLocals(FALSE)]
    /\ turns = 0

Init ==
    /\ AgentConstructed
    /\ tools \in Registries
    /\ ReaderIdle
    /\ SearchIdle
    /\ LoggerIdle
    /\ LoadIdle
    /\ WebIdle

\* one caller at a time, as the command-line client makes its calls
Next ==
    \/ \E m \in Messages, u \in BOOLEAN : ChatCall("t1", m, u)
    \/ \E r \in Replies : BackendReply("t1", r)
    \/ BackendRaise("t1")
    \/ RunTool("t1")
    \/ AppendToolUser("t1")
    \/ AppendToolReply("t1")
    \/ AppendToolResult("t1")
    \/ AppendPlainUser("t1")
    \/ AppendPlainReply("t1")
    \/ ChatReturn("t1")

Spec == Init /\ [][Next]_vars

InitReader ==
    /\ AgentConstructed
    /\ tools = FullRegistry
    /\ ReaderInputs
    /\ SearchIdle
    /\ LoggerIdle
    /\ LoadIdle
    /\ WebIdle

NextReader == ReaderRun

SpecReader == InitReader /\ [][NextReader]_vars

InitSearch ==
    /\ AgentConstructed
    /\ tools = FullRegistry
    /\ ReaderIdle
    /\ SearchInputs
    /\ LoggerIdle
    /\ LoadIdle
    /\ WebIdle

NextSearch == SearchRun

SpecSearch == InitSearch /\ [][NextSearch]_vars

InitLogger ==
    /\ AgentConstructed
    /\ tools = FullRegistry
    /\ ReaderIdle
    /\ SearchIdle
    /\ LoggerInputs
    /\ LoadIdle
    /\ WebIdle

NextLogger == \E k \in NoteKwargs, now \in Clock : LoggerRun(k, now)

SpecLogger == InitLogger /\ [][NextLogger]_vars

\* before construction there is no registry yet
InitLoad ==
    /\ AgentConstructed
    /\ tools = EmptyRegistry
    /\ ReaderIdle
    /\ SearchIdle
    /\ LoggerIdle
    /\ LoadInputs
    /\ WebIdle

NextLoad ==
    \/ Construct
    \/ ListTools

SpecLoad == InitLoad /\ [][NextLoad]_vars

\* the service after start-up: one process-wide Agent, two handler threads
InitHttp ==
    /\ AgentConstructed
    /\ tools = FullRegistry
    /\ ReaderIdle
    /\ SearchIdle
    /\ LoggerIdle
    /\ LoadIdle
    /\ WebIdle

NextHttp ==
    \E t \in Threads :
        \/ \E m \in HttpMessages, u \in BOOLEAN : PostChat(t, m, u)
        \/ \E r \in HttpReplies : BackendReply(t, r)
        \/ BackendRaise(t)
        \/ RunTool(t)
        \/ AppendToolUser(t)
        \/ AppendToolReply(t)
        \/ AppendToolResult(t)
        \/ AppendPlainUser(t)
        \/ AppendPlainReply(t)
        \/ PostChatAnswer(t)

SpecHttp == InitHttp /\ [][NextHttp]_vars

\* the service with both endpoints, one request at a time
InitService ==
    /\ AgentConstructed
    /\ ServiceStarted
    /\ ReaderIdle
    /\ SearchIdle
    /\ LoggerIdle
    /\ WebIdle

NextService ==
    \/ \E m \in HttpMessages, u \in BOOLEAN : PostChat("t1", m, u)
    \/ \E r \in HttpReplies : BackendReply("t1", r)
    \/ BackendRaise("t1")
    \/ RunTool("t1")
    \/ AppendToolUser("t1")
    \/ AppendToolReply("t1")
    \/ AppendToolResult("t1")
    \/ AppendPlainUser("t1")
    \/ AppendPlainReply("t1")
    \/ PostChatAnswer("t1")
    \/ ListTools

SpecService == InitService /\ [][NextService]_vars

-----------------------------------------------------------------------------
(* Vocabulary of the properties *)

IsPrefix(a, b) == Len(a) <= Len(b) /\ SubSeq(b, 1, Len(a)) = a

\* the entries appended to history since thread t's call began (one caller)
Added(t) == SubSeq(history, Len(th[t].h0) + 1, Len(history))

Returned(t) == th[t].pc = "done" /\ th[t].out.kind = "return"

\* the text x is exactly one JSON object with a mapping under "tool"
IsEnvelope(x) ==
    /\ Len(x) = 1
    /\ x[1].k = "obj"
    /\ "tool" \in DOMAIN x[1].v
    /\ x[1].v["tool"].t = "dict"
    /\ DOMAIN x[1].v["tool"].v # {}

EnvelopeName(x) == Get(x[1].v["tool"].v, "name", None)
EnvelopeArgs(x) == Get(x[1].v["tool"].v, "args", JDict(EmptyMap))

NamesRegistered(x) == EnvelopeName(x).t = "str" /\ EnvelopeName(x).v \in DOMAIN tools

\* the text of the payload {"error": "<message>"}
ErrorPayload(e) == <<ObjText([error |-> [t |-> "message", fmt |-> e.msg, arg |-> e.arg]])>>

\* the part of x from its first "{" to its last "}"
BraceSpan(x) ==
    LET objs == {i \in 1..Len(x) : x[i].k = "obj"} IN
    IF objs = {} THEN <<>>
    ELSE SubSeq(x, CHOOSE i \in objs : \A j \in objs : i <= j,
                   CHOOSE i \in objs : \A j \in objs : i >= j)

-----------------------------------------------------------------------------
(* C1: with use_tools, a reply that is an envelope naming an unregistered  *)
(* tool makes chat return {"error": "Unknown tool: <name>"} and leaves     *)
(* history as it was before the call.                                      *)
C1_UnknownToolErrorPayload ==
    \A t \in Threads :
        (/\ Returned(t)
         /\ th[t].use_tools
         /\ IsEnvelope(th[t].reply)
         /\ EnvelopeName(th[t].reply).t = "str"
         /\ ~NamesRegistered(th[t].reply))
        => /\ th[t].out.v =
                ErrorPayload(Raise("ValueError", "Unknown tool: %s", EnvelopeName(th[t].reply)))
           /\ history = th[t].h0

(* C2: with use_tools, when the envelope names a registered tool and the   *)
(* tool's run, or the application of its arguments, raises, chat returns   *)
(* {"error": "<failure message>"} and leaves history as it was.            *)
C2_ToolFailureErrorPayload ==
    \A t \in Threads :
        (/\ Returned(t)
         /\ th[t].call.kind = "call"
         /\ th[t].result = None
         /\ th[t].caught # None)
        => /\ th[t].out.v = ErrorPayload(th[t].caught)
           /\ history = th[t].h0

(* C3: with use_tools, when the envelope names a registered tool and its   *)
(* run succeeds, chat appends exactly the user message, the raw envelope   *)
(* text and the serialized result, in this order, and returns the          *)
(* serialized result.                                                      *)
C3_ToolTurnThreeEntries ==
    \A t \in Threads :
        (/\ th[t].pc = "done"
         /\ th[t].call.kind = "call"
         /\ th[t].result # None)
        => /\ JsonDumps(th[t].result).ok
           /\ th[t].out = [kind |-> "return", v |-> JsonDumps(th[t].result).v]
           /\ Added(t) = <<[role |-> "user", content |-> th[t].message],
                           [role |-> "assistant", content |-> Strip(th[t].response)],
                           [role |-> "assistant", content |-> JsonDumps(th[t].result).v]>>

(* C4: without use_tools, whatever the backend replies, no tool runs, the  *)
(* trimmed reply is returned and exactly the user message and the reply    *)
(* are appended to history.                                                *)
C4_NoToolsPlainTurn ==
    \A t \in Threads :
        (th[t].pc = "done" /\ ~th[t].use_tools /\ ~th[t].backend_failed)
        => /\ th[t].ran = <<>>
           /\ th[t].out = [kind |-> "return", v |-> Strip(th[t].response)]
           /\ Added(t) = <<[role |-> "user", content |-> th[t].message],
                           [role |-> "assistant", content |-> Strip(th[t].response)]>>

\* a plain call whose reply is a well-formed envelope naming a registered tool
C4_Witness ==
    \E t \in Threads :
        /\ Returned(t)
        /\ ~th[t].use_tools
        /\ IsEnvelope(Strip(th[t].response))
        /\ NamesRegistered(Strip(th[t].response))
        /\ Len(th[t].h0) > 0

(* C5, as stated: every chat call that returns adds an even number of      *)
(* entries to history, the first of them the user entry.                   *)
C5_EvenNumberAdded ==
    \A t \in Threads :
        Returned(t)
        => /\ Len(Added(t)) % 2 = 0
           /\ Len(Added(t)) > 0
           /\ Added(t)[1] = [role |-> "user", content |-> th[t].message]

(* C5, amended: every chat call that returns adds two, three or four       *)
(* entries to history, the first of them the user entry; it adds three,    *)
(* an odd number, exactly when it returns a serialized tool result.        *)
C5_CountAdded ==
    \A t \in Threads :
        Returned(t)
        => /\ Len(Added(t)) \in {2, 3, 4}
           /\ Added(t)[1] = [role |-> "user", content |-> th[t].message]
           /\ Len(Added(t)) = 3 <=>
                (/\ th[t].result # None
                 /\ JsonDumps(th[t].result).ok
                 /\ th[t].out.v = JsonDumps(th[t].result).v)

\* a tool turn has returned after adding three entries
C5_Witness ==
    \E t \in Threads : Returned(t) /\ Len(Added(t)) = 3 /\ th[t].ran # <<>>

(* C6: history is append-only: every step of every chat call leaves the    *)
(* history it found as a prefix of the history it leaves.                  *)
C6_AppendOnly == [][IsPrefix(history, history')]_vars

\* after a call that caught a tool failure, a tool turn has grown a non-empty history
C6_Witness ==
    \E t \in Threads :
        /\ Returned(t)
        /\ th[t].prev_caught
        /\ Len(th[t].h0) >= 2
        /\ Len(history) = Len(th[t].h0) + 3

(* C7: with use_tools, when the trimmed reply is not one JSON document but *)
(* the part from its first "{" to its last "}" is an envelope naming a     *)
(* registered tool, that tool is run with the envelope's args and the      *)
(* turn is a tool turn.                                                    *)
C7_FallbackExtraction ==
    \A t \in Threads :
        (/\ th[t].pc = "done"
         /\ th[t].use_tools
         /\ ~JsonLoads(th[t].reply).ok
         /\ IsEnvelope(BraceSpan(th[t].reply))
         /\ NamesRegistered(BraceSpan(th[t].reply)))
        => /\ th[t].ran = <<[name |-> EnvelopeName(BraceSpan(th[t].reply)).v,
                             args |-> EnvelopeArgs(BraceSpan(th[t].reply))]>>
           /\ Len(Added(t)) # 2

(* C8: a tool failure never aborts the session: whatever failure the try   *)
(* block meets (malformed envelope, unknown tool, non-mapping args, a run  *)
(* that raises), chat returns a value, and the call that follows on the    *)
(* same Agent is carried out: unless the backend fails it returns, having  *)
(* appended its user message first.                                        *)
C8_ToolFailureContained ==
    \A t \in Threads :
        /\ (th[t].pc = "done" /\ th[t].caught # None) => th[t].out.kind = "return"
        /\ (th[t].pc = "done" /\ th[t].prev_caught /\ ~th[t].backend_failed)
           => /\ th[t].out.kind = "return"
              /\ Len(Added(t)) >= 2
              /\ Added(t)[1] = [role |-> "user", content |-> th[t].message]
        /\ (th[t].pc = "idle" /\ th[t].prev_caught /\ turns < MaxTurns)
           => ENABLED ChatCall(t, <<Prose("hello")>>, TRUE)

\* a call has returned in which a registered tool's run raised, after a call
\* that caught a failure
C8_Witness ==
    \E t \in Threads :
        /\ Returned(t)
        /\ th[t].prev_caught
        /\ th[t].ran # <<>>
        /\ th[t].caught # None
        /\ th[t].caught.exc = "ValueError"

-----------------------------------------------------------------------------
(* The file reader *)

\* the location abs is the directory root or lies below it
Contained(abs, root) ==
    LET r == NormPath(root) IN
    \/ abs = r
    \/ r = <<"/">>
    \/ StartsWith(abs, r \o <<"/">>)

RdPath == Get(rdArgs, "path", None)
RdMaxChars == Get(rdArgs, "max_chars", JInt(DefaultMaxChars)).v
RdTarget == AbsPath(PathJoin(rdRoot, RdPath.v))

(* C9: for every root and path, when the joined and normalized path is     *)
(* neither the root nor below it, run fails with "Access outside the       *)
(* repository is not allowed" and returns no content.                      *)
C9_OutsideRootRejected ==
    (/\ rdOut # NotRun
     /\ Truthy(RdPath)
     /\ ~Contained(RdTarget, rdRoot))
    => rdOut = Raise("ValueError", "Access outside the repository is not allowed", None)

(* C10, as stated: for every readable file inside the root and every       *)
(* integer max_chars, the content is a prefix of the file's text of at     *)
(* most max_chars characters, and truncated is true exactly when the       *)
(* number of characters read is >= max_chars.                              *)
C10_AtMostMaxChars ==
    (rdOut.ok /\ Contained(RdTarget, rdRoot))
    => /\ IsPrefix(rdOut.v.v.content.v, FileText[RdTarget])
       /\ Len(rdOut.v.v.content.v) <= RdMaxChars
       /\ rdOut.v.v.truncated.v <=> (Len(rdOut.v.v.content.v) >= RdMaxChars)

(* C10, amended: for every readable file inside the root, the content is   *)
(* the first max_chars characters of the file's text (all of it when it    *)
(* is shorter) for max_chars >= 0 and the whole text for max_chars < 0,    *)
(* and truncated is true exactly when the number of characters read is     *)
(* >= max_chars.                                                           *)
C10_PrefixAndTruncated ==
    (rdOut.ok /\ Contained(RdTarget, rdRoot))
    => LET text == FileText[RdTarget]
           content == rdOut.v.v.content.v
       IN  /\ IsPrefix(content, text)
           /\ RdMaxChars >= 0 =>
                Len(content) = IF Len(text) < RdMaxChars THEN Len(text) ELSE RdMaxChars
           /\ RdMaxChars < 0 => content = text
           /\ rdOut.v.v.truncated.v <=> (Len(content) >= RdMaxChars)

\* max_chars equal to the length of a non-empty file: truncated is true
C10_Witness ==
    /\ rdOut.ok
    /\ Contained(RdTarget, rdRoot)
    /\ "max_chars" \in DOMAIN rdArgs
    /\ RdMaxChars = Len(FileText[RdTarget])
    /\ RdMaxChars > 0
    /\ rdOut.v.v.truncated.v

-----------------------------------------------------------------------------
(* Vocabulary of the search properties *)

Searched == sr.out # NotRun
SrReturned == Searched /\ sr.out.ok
SrQuery == sr.args["query"].v
SrMaxResults == Get(sr.args, "max_results", JInt(DefaultMaxResults)).v
SrLiteral == "regex" \notin DOMAIN sr.args \/ ~sr.args["regex"].v
SrMatches == sr.out.v.matches
SrReported == {SrMatches[n] : n \in 1..Len(SrMatches)}

\* the directory names the specification lists as ignored
IgnoredDirs == {".git", "__pycache__", ".venv", "node_modules", ".mypy_cache"}

UnderIgnored(dir) == \E n \in 1..Len(dir) : dir[n] \in IgnoredDirs

\* a file the specification's walk looks into
Qualifying(f) ==
    /\ LowerExt(f.ext) \in TEXT_EXTENSIONS
    /\ f.readable
    /\ ~UnderIgnored(f.dir)

MatchEntry(k, i) ==
    [file |-> RelPath(SearchFiles[k]), line |-> i,
     text |-> StripChars(SearchFiles[k].lines[i])]

\* the positions (file, line) of the tree, and their traversal order
Positions ==
    UNION {{<<k, i>> : i \in 1..Len(SearchFiles[k].lines)} : k \in 1..Len(SearchFiles)}
Before(p, q) == p[1] < q[1] \/ (p[1] = q[1] /\ p[2] < q[2])
PositionOf(m) == CHOOSE p \in Positions : MatchEntry(p[1], p[2]) = m

\* the line contains the query text itself, case ignored
ContainsLiteral(query, line) ==
    \E i \in 1..(Len(line) - Len(query) + 1) :
        \A j \in 1..Len(query) : LowerChar(query[j]) = LowerChar(line[i + j - 1])

-----------------------------------------------------------------------------
(* C11: a search that returns holds at most max_results matches, each a    *)
(* matching line under its 1-based number, in traversal order; truncated   *)
(* is true exactly when max_results matches were collected, and a result   *)
(* that is not truncated holds every matching line of every qualifying     *)
(* file.                                                                   *)
C11_CappedScan ==
    SrReturned =>
        /\ Len(SrMatches) <= SrMaxResults
        /\ \A m \in SrReported :
               \E p \in Positions :
                   /\ m = MatchEntry(p[1], p[2])
                   /\ PatternSearch(SrQuery, SearchFiles[p[1]].lines[p[2]])
        /\ \A a, b \in 1..Len(SrMatches) :
               a < b => Before(PositionOf(SrMatches[a]), PositionOf(SrMatches[b]))
        /\ sr.out.v.truncated <=> Len(SrMatches) = SrMaxResults
        /\ ~sr.out.v.truncated =>
               \A p \in Positions :
                   (/\ Qualifying(SearchFiles[p[1]])
                    /\ PatternSearch(SrQuery, SearchFiles[p[1]].lines[p[2]]))
                   => MatchEntry(p[1], p[2]) \in SrReported

-----------------------------------------------------------------------------
(* C12: without the regex argument, or with it false, the search never     *)
(* fails on a non-empty query, every reported line contains the query text *)
(* itself (case ignored), and a result that is not truncated reports every *)
(* such line of every qualifying file.                                     *)
C12_LiteralMatch ==
    (Searched /\ SrLiteral /\ Truthy(Get(sr.args, "query", None))) =>
        /\ sr.out.ok
        /\ \A m \in SrReported :
               ContainsLiteral(SrQuery, SearchFiles[PositionOf(m)[1]].lines[m.line])
        /\ ~sr.out.v.truncated =>
               \A p \in Positions :
                   (/\ Qualifying(SearchFiles[p[1]])
                    /\ ContainsLiteral(SrQuery, SearchFiles[p[1]].lines[p[2]]))
                   => MatchEntry(p[1], p[2]) \in SrReported

-----------------------------------------------------------------------------
(* C13: no match of a search that returns refers to a file under an        *)
(* ignored directory, at any depth.                                        *)
C13_IgnoredPruned ==
    SrReturned => \A m \in SrReported : ~UnderIgnored(m.file.dir)

-----------------------------------------------------------------------------
(* C14: every LoggerTool.run call either succeeds on a non-empty note and  *)
(* leaves the notes file as its previous content followed by the one line  *)
(* "[<timestamp>] <note>" (creating the file if it was absent), or fails   *)
(* with ValueError on an empty or absent note and leaves the file as it    *)
(* was.                                                                    *)
C14_NotesAppendOnly ==
    [][lg' # lg =>
        LET before == IF lg.file.exists THEN lg.file.text ELSE <<>>
            note == Get(lg'.args, "note", None)
        IN  IF Truthy(note)
            THEN /\ lg'.out.ok
                 /\ lg'.file.exists
                 /\ Len(lg'.file.text) = Len(before) + 1
                 /\ SubSeq(lg'.file.text, 1, Len(before)) = before
                 /\ \E now \in Clock :
                        lg'.file.text[Len(before) + 1] = NoteLine(IsoFormat(now), note.v)
            ELSE /\ ~lg'.out.ok
                 /\ lg'.out.exc = "ValueError"
                 /\ lg'.file = lg.file]_vars

\* a file with earlier content, two lines appended, and a failed call last
C14_Witness ==
    /\ lg.calls = 3
    /\ ~lg.out.ok
    /\ Len(lg.file.text) = 3
    /\ lg.file.text[1].note = "old"
    /\ lg.file.text[2].note # lg.file.text[3].note

-----------------------------------------------------------------------------
(* Vocabulary of the configuration properties *)

ConstructionTried == ld.out # NotRun

\* a document that parses but has no tool to load: not a mapping, no tools
\* key, a null tools list or an empty one
NoToolsDocument(d) ==
    /\ d.t # "invalid"
    /\ d.t = "dict" /\ "tools" \in DOMAIN d.v /\ d.v["tools"].t = "list"
           => d.v["tools"].v = <<>>

ConfiguredEntries ==
    IF ld.doc.t = "dict" /\ "tools" \in DOMAIN ld.doc.v /\ ld.doc.v["tools"].t = "list"
    THEN ld.doc.v["tools"].v
    ELSE <<>>

ConfiguredNames == {ConfiguredEntries[i].v["name"].v : i \in 1..Len(ConfiguredEntries)}

FirstEntryOf(n) ==
    CHOOSE i \in 1..Len(ConfiguredEntries) :
        /\ ConfiguredEntries[i].v["name"].v = n
        /\ \A j \in 1..(i - 1) : ConfiguredEntries[j].v["name"].v # n

Listed == ld.listed # NotListed

-----------------------------------------------------------------------------
(* C15: constructing an Agent from a document that parses but has no tool  *)
(* to load (empty list, no tools key, null list, not a mapping) succeeds   *)
(* with an empty registry.                                                 *)
C15_TolerantConfig ==
    (ConstructionTried /\ NoToolsDocument(ld.doc)) =>
        /\ ld.out.ok
        /\ tools = EmptyRegistry

-----------------------------------------------------------------------------
(* C17 as stated: the list GET /tools returns has as many descriptors as   *)
(* the configuration's tools list has entries.                             *)
C17_OnePerEntry ==
    Listed => Len(ld.listed.tools) = Len(ConfiguredEntries)

(* C17: GET /tools returns one descriptor per distinct configured name, in *)
(* the order in which the names first occur in the configuration, each of  *)
(* the tool registered under that name.                                    *)
C17_OnePerName ==
    Listed =>
        /\ ld.listed.status = 200
        /\ Len(ld.listed.tools) = Cardinality(ConfiguredNames)
        /\ \A a, b \in 1..Len(ld.listed.tools) :
               a < b => FirstEntryOf(ld.order[a]) < FirstEntryOf(ld.order[b])
        /\ \A a \in 1..Len(ld.listed.tools) :
               /\ ld.order[a] \in ConfiguredNames
               /\ ld.listed.tools[a].class = tools[ld.order[a]]
               /\ ld.listed.tools[a].name = ToolName(tools[ld.order[a]])

\* two tools listed from a configuration of two distinct names
C17_Witness ==
    /\ Listed
    /\ Len(ld.listed.tools) = 2
    /\ Len(ConfiguredEntries) = 2
    /\ ld.listed.tools[1].name # ld.listed.tools[2].name

-----------------------------------------------------------------------------
(* The answering step: when agent.chat returns, POST /chat answers 200     *)
(* with the reply as response; when it raises, 500 with the failure's      *)
(* message as detail; the answer leaves the Agent (registry and history)   *)
(* as chat left it.                                                        *)
C16_AnswerStep ==
    [][\A t \in Threads :
          (th[t].pc = "done" /\ th'[t].pc = "idle") =>
              /\ th[t].out.kind = "return" =>
                     web'[t].resp = [status |-> 200, body |-> [response |-> th[t].out.v]]
              /\ th[t].out.kind = "raise" =>
                     web'[t].resp = [status |-> 500, body |-> [detail |-> Str(th[t].out.exc)]]
              /\ tools' = tools
              /\ history' = history
              /\ web'[t].req = web[t].req]_vars

\* a thread that has answered is free for the next request while requests remain
C16_NextAccepted ==
    \A t \in Threads :
        (web[t].resp # NoResponse /\ th[t].pc = "idle" /\ turns < MaxRequests)
            => ENABLED PostChat(t, <<Prose("hello")>>, FALSE)

(* C16: POST /chat answers 200 with the agent's reply whenever agent.chat  *)
(* returns and 500 with the failure message whenever it raises, and the    *)
(* service then accepts the next request on the same Agent.                *)
C16_ChatAnswered == C16_AnswerStep /\ []C16_NextAccepted

\* a request answered 200 after an earlier request was answered 500
C16_Witness ==
    /\ web["t1"].resp.status = 500
    /\ web["t1"].n = 1
    /\ web["t2"].resp.status = 200
    /\ web["t2"].n = 2
    /\ web["t2"].resp.body.response = <<Prose("hi")>>
    /\ Len(history) = 2

-----------------------------------------------------------------------------
(* Vocabulary of the concurrency property *)

\* the call of thread t has appended and has an append still to make
BetweenAppends(t) == th[t].mine # {} /\ th[t].pc \in {"tool_reply", "dumps", "plain_reply"}

\* an entry of u's turn lies between two entries of t's turn
Separated(t, u) ==
    \E i \in th[t].mine, k \in th[t].mine, j \in th[u].mine : i < j /\ j < k

-----------------------------------------------------------------------------
(* C18: a chat turn is not atomic for concurrent POST /chat requests:      *)
(* while one call is between its appends to history, the first append of   *)
(* every other call that has reached it can be taken, so the entries of    *)
(* one turn can be separated by an entry of the other.                     *)
C18_TurnNotAtomic ==
    \A t \in Threads, u \in Threads :
        (t # u /\ BetweenAppends(t)) =>
            /\ th[u].pc = "plain_user" => ENABLED AppendPlainUser(u)
            /\ th[u].pc = "tool_user" => ENABLED AppendToolUser(u)

\* the turn of the request that arrived second starts first in history and
\* is separated by an entry of the turn of the request that arrived first
C18_Witness ==
    \E t \in Threads, u \in Threads :
        /\ t # u
        /\ web[u].n < web[t].n
        /\ Separated(t, u)
        /\ 1 \in th[t].mine

-----------------------------------------------------------------------------
(* C19: when backend.generate fails during chat, the failure leaves chat   *)
(* uncaught, no tool has been run, and history is as it was before the     *)
(* call; the step back to the caller leaves history, the registry and the  *)
(* locals of the next call as after a call that never happened.            *)
C19_BackendFailurePropagates ==
    [][\A t \in Threads :
          /\ (th[t].pc = "generate" /\ th'[t].pc = "done") =>
                 /\ th'[t].out.kind = "raise"
                 /\ th'[t].out.exc.exc = "BackendError"
                 /\ th'[t].caught = None
                 /\ th'[t].ran = <<>>
                 /\ th'[t].mine = {}
                 /\ history' = th[t].h0
                 /\ tools' = tools
          /\ (th[t].pc = "done" /\ th[t].backend_failed /\ th'[t].pc = "idle") =>
                 /\ history' = th[t].h0
                 /\ tools' = tools
                 /\ th'[t] = IdleLocals(th'[t].prev_caught)]_vars

\* a call that failed in the backend after an earlier turn was recorded
C19_Witness ==
    /\ th["t1"].pc = "done"
    /\ th["t1"].backend_failed
    /\ th["t1"].out.kind = "raise"
    /\ Len(th["t1"].h0) >= 2
    /\ history = th["t1"].h0

-----------------------------------------------------------------------------
(* C20: the one request generate sends holds the system message first if   *)
(* and only if a system prompt was supplied, then every entry of the       *)
(* history as it stood at the call, in order, then the prompt as the final *)
(* user message, so the new message is in the request once and not yet in  *)
(* history; history is unchanged by the call.                              *)
C20_RequestMessages ==
    \A t \in Threads :
        th[t].pc # "idle" =>
            /\ Len(th[t].posts) = 1
            /\ LET msgs == th[t].posts[1].messages
                   k == IF th[t].use_tools THEN 1 ELSE 0
                   n == Len(th[t].h0)
               IN  /\ Len(msgs) = k + n + 1
                   /\ th[t].use_tools =>
                          /\ msgs[1].role = "system"
                          /\ msgs[1].content = BuildSystemPrompt(tools).v
                   /\ \A i \in 1..n : msgs[k + i] = th[t].h0[i]
                   /\ msgs[k + n + 1] = [role |-> "user", content |-> th[t].message]
            /\ th[t].pc \in {"generate", "run", "tool_user"} =>
                   history = th[t].h0

\* a request with a system message and two history entries
C20_Witness ==
    /\ th["t1"].pc = "generate"
    /\ th["t1"].use_tools
    /\ Len(th["t1"].h0) = 2
    /\ Len(th["t1"].posts[1].messages) = 4

-----------------------------------------------------------------------------
(* The parts of C21 *)
C21_RegistryStep ==
    [][/\ tools' = tools
       /\ ld'.order = ld.order
       /\ ld'.doc = ld.doc]_vars

C21_ListedAsConstructed ==
    /\ tools = LoadTools(ld.doc).v.reg
    /\ ld.order = LoadTools(ld.doc).v.order
    /\ Listed => /\ ld.listed.status = 200
                 /\ ld.listed.tools =
                        ToolsInfo(LoadTools(ld.doc).v.reg, LoadTools(ld.doc).v.order)

(* C21: after construction no step of a chat call or of GET /tools changes *)
(* the registry or the order of its names, and whenever GET /tools has     *)
(* answered, its answer is the list of the registry as constructed.        *)
C21_RegistryFixed == C21_RegistryStep /\ []C21_ListedAsConstructed

\* GET /tools answered with two tools after a tool turn and a turn whose
\* tool call failed were recorded
C21_Witness ==
    /\ Listed
    /\ Len(ld.listed.tools) = 2
    /\ ld.listed.seen = 5
    /\ Len(history) = 5
    /\ th["t1"].pc = "idle"
    /\ th["t1"].prev_caught

-----------------------------------------------------------------------------
(* C22: every chat call that returns has appended the user's message to    *)
(* history exactly once and the raw model reply at most once.              *)
C22_AppendedOnce ==
    \A t \in Threads :
        Returned(t) =>
            /\ Cardinality({i \in 1..Len(Added(t)) :
                               Added(t)[i] = UserEntry(th[t].message)}) = 1
            /\ Cardinality({i \in 1..Len(Added(t)) :
                               Added(t)[i] = AssistantEntry(th[t].reply)}) <= 1

-----------------------------------------------------------------------------
(* Vocabulary of the lost-append property *)

\* the call of thread t has returned the raw reply without a tool result
PlainReturned(t) == Returned(t) /\ th[t].result = None /\ th[t].out.v = th[t].reply

-----------------------------------------------------------------------------
(* C23: no append is lost under concurrency: a call that has returned      *)
(* through the plain-reply path has exactly two entries in history, its    *)
(* user entry before its assistant entry; the entries of concurrent calls  *)
(* are at different places; and when one call per handler thread has been  *)
(* made and all have returned this way, history holds two entries per call.*)
C23_NoAppendLost ==
    /\ \A t \in Threads :
           PlainReturned(t) =>
               \E i \in th[t].mine, k \in th[t].mine :
                   /\ th[t].mine = {i, k}
                   /\ i < k
                   /\ k <= Len(history)
                   /\ history[i] = UserEntry(th[t].message)
                   /\ history[k] = AssistantEntry(th[t].reply)
    /\ \A t \in Threads, u \in Threads :
           t # u => th[t].mine \cap th[u].mine = {}
    /\ ((\A t \in Threads : PlainReturned(t)) /\ turns = Cardinality(Threads))
           => Len(history) = 2 * Cardinality(Threads)

\* two concurrent calls have returned with their entries interleaved
C23_Witness ==
    /\ \A t \in Threads : PlainReturned(t)
    /\ Len(history) = 4
    /\ \E t \in Threads, u \in Threads :
           /\ th[t].mine = {1, 3}
           /\ th[u].mine = {2, 4}

====
